---- MODULE Spec2Model ----
(***************************************************************************)
(* Model of src/app.py: the Streamlit smartphone recommender.              *)
(*                                                                         *)
(* A float is an IEEE-754 double, held as <<sign, exponent, significand>>  *)
(* and computed with round-to-nearest-even as the hardware computes it.    *)
(* Strings that the program parses (the camera column) are sequences of    *)
(* one-character strings.  A missing brand (None) is the value NoBrand; a  *)
(* camera cell that is not a string (NaN) has str = FALSE.                 *)
(***************************************************************************)
EXTENDS Integers, Sequences, FiniteSets, TLC

VARIABLES catalog, price_range, priority, brand_pref,
          recommendations, ui, chat_history, call, trace

vars == <<catalog, price_range, priority, brand_pref,
          recommendations, ui, chat_history, call, trace>>

(***************************************************************************)
(* Natural numbers of any size: the sequence of the digits in base Base,   *)
(* least significant first, without leading zeros; 0 is <<>>               *)
(***************************************************************************)
LimbBits == 14

Base == 16384

\* the least i in lo..hi with marks[i], 0 if there is none
RECURSIVE FirstTrue(_, _, _)
FirstOr(found, marks, lo, hi) == IF found # 0 THEN found ELSE FirstTrue(marks, lo, hi)

FirstTrue(marks, lo, hi) ==
    IF lo > hi THEN 0
    ELSE IF lo = hi THEN (IF marks[lo] THEN lo ELSE 0)
    ELSE FirstOr(FirstTrue(marks, lo, (lo + hi) \div 2), marks, (lo + hi) \div 2 + 1, hi)

\* the greatest i in lo..hi with marks[i], 0 if there is none
RECURSIVE LastTrue(_, _, _)
LastOr(found, marks, lo, hi) == IF found # 0 THEN found ELSE LastTrue(marks, lo, hi)

LastTrue(marks, lo, hi) ==
    IF lo > hi THEN 0
    ELSE IF lo = hi THEN (IF marks[lo] THEN lo ELSE 0)
    ELSE LastOr(LastTrue(marks, (lo + hi) \div 2 + 1, hi), marks, lo, (lo + hi) \div 2)

\* digit i of a, 0 beyond its length
Limb(a, i) == IF 1 <= i /\ i <= Len(a) THEN a[i] ELSE 0

RECURSIVE BigOf(_)
BigOf(n) == IF n = 0 THEN <<>> ELSE <<n % Base>> \o BigOf(n \div Base)

\* the number of bits of the integer n >= 0
RECURSIVE BitLength(_)
BitLength(n) == IF n = 0 THEN 0 ELSE 1 + BitLength(n \div 2)

BigBits(a) == IF a = <<>> THEN 0 ELSE LimbBits * (Len(a) - 1) + BitLength(a[Len(a)])

\* a without its leading zero digits
Trim(a) == SubSeq(a, 1, LastTrue([i \in 1..Len(a) |-> a[i] # 0], 1, Len(a)))

\* -1, 0 or 1 as a[k] < b[k], k = 0 or a[k] > b[k]
CmpDigit(a, b, k) == IF k = 0 THEN 0 ELSE IF a[k] < b[k] THEN -1 ELSE 1

\* -1, 0 or 1 as a < b, a = b or a > b: the most significant digit that differs decides
BigCmp(a, b) ==
    IF Len(a) < Len(b) THEN -1
    ELSE IF Len(a) > Len(b) THEN 1
    ELSE CmpDigit(a, b, LastTrue([i \in 1..Len(a) |-> a[i] # b[i]], 1, Len(a)))

\* t[lo..hi] with the carry c added at lo and every entry reduced to a digit,
\* and the carry out of hi: <<digits, carry>> (a carry may be negative)
RECURSIVE Propagate(_, _, _, _)
JoinDigits(d, up) == <<d \o up[1], up[2]>>

PropagateUpper(t, lo, hi, low) == JoinDigits(low[1], Propagate(t, lo, hi, low[2]))

Propagate(t, lo, hi, c) ==
    IF lo > hi THEN << <<>>, c >>
    ELSE IF lo = hi THEN << <<(t[lo] + c) % Base>>, (t[lo] + c) \div Base >>
    ELSE PropagateUpper(t, (lo + hi) \div 2 + 1, hi, Propagate(t, lo, (lo + hi) \div 2, c))

WithCarry(r) == Trim(r[1] \o BigOf(r[2]))

\* the number with t[i] at digit position i, for i in 1..n
Carried(t, n) == WithCarry(Propagate(t, 1, n, 0))

BigAdd(a, b) ==
    Carried([i \in 1..(IF Len(a) > Len(b) THEN Len(a) ELSE Len(b)) |-> Limb(a, i) + Limb(b, i)],
            IF Len(a) > Len(b) THEN Len(a) ELSE Len(b))

\* a - b for a >= b
BigSub(a, b) == Carried([i \in 1..Len(a) |-> a[i] - Limb(b, i)], Len(a))

\* a * k for an integer 0 <= k < 4 * Base
BigScale(a, k) == Carried([i \in 1..Len(a) |-> a[i] * k], Len(a))

\* a * Base^n
BigShiftLimbs(a, n) == IF a = <<>> THEN <<>> ELSE [i \in 1..n |-> 0] \o a

\* a * 2^n
BigShl(a, n) == BigShiftLimbs(BigScale(a, 2^(n % LimbBits)), n \div LimbBits)

\* floor(a / (Base^w * 2^r)), r < LimbBits
BigDrop(a, w, r) ==
    Trim([i \in 1..(Len(a) - w) |->
            (a[i + w] \div 2^r) + (Limb(a, i + w + 1) % 2^r) * 2^(LimbBits - r)])

\* floor(a / 2^n)
BigShr(a, n) == BigDrop(a, n \div LimbBits, n % LimbBits)

\* bit i of a, bit 0 the least significant
BigBit(a, i) == (Limb(a, i \div LimbBits + 1) \div 2^(i % LimbBits)) % 2

\* the n low bits of a are all zero
BigLowZero(a, n) ==
    /\ \A i \in 1..(n \div LimbBits) : Limb(a, i) = 0
    /\ Limb(a, n \div LimbBits + 1) % 2^(n % LimbBits) = 0

\* a * (the number of the digits lo..hi of b)
RECURSIVE BigMulRange(_, _, _, _)
BigMulRange(a, b, lo, hi) ==
    IF lo > hi THEN <<>>
    ELSE IF lo = hi THEN BigScale(a, b[lo])
    ELSE BigAdd(BigMulRange(a, b, lo, (lo + hi) \div 2),
                BigShiftLimbs(BigMulRange(a, b, (lo + hi) \div 2 + 1, hi),
                              (lo + hi) \div 2 + 1 - lo))

BigMul(a, b) == IF a = <<>> \/ b = <<>> THEN <<>> ELSE BigMulRange(a, b, 1, Len(b))

\* r * Base + limb
BringDown(r, limb) == IF r = <<>> /\ limb = 0 THEN <<>> ELSE <<limb>> \o r

\* a digit q <= floor(r / d) that is at most 2 below it, for r < d * Base and
\* d with its top bit set: the quotient of the leading bits of r and of d
QuotientDigit(r, d) ==
    IF Len(r) < Len(d) THEN 0
    ELSE (Limb(r, Len(d) + 1) * 65536 + r[Len(d)] * 4 + Limb(r, Len(d) - 1) \div 4096)
            \div (d[Len(d)] * 4 + Limb(d, Len(d) - 1) \div 4096 + 1)

\* <<q + floor(r / d), r mod d>>
RECURSIVE Reduce(_, _, _)
Reduce(q, r, d) ==
    IF BigCmp(r, d) >= 0 THEN Reduce(q + 1, BigSub(r, d), d) ELSE <<q, r>>

\* <<floor(r / d), r mod d>> given the estimate q
DivideDigit(r, d, q) == Reduce(q, BigSub(r, BigScale(d, q)), d)

\* one digit of the quotient and the remainder it leaves
DigitAndRest(qr) == << <<qr[1]>>, qr[2] >>

DivideLimb(r, d) == DigitAndRest(DivideDigit(r, d, QuotientDigit(r, d)))

JoinQuotient(upper, low) == <<upper \o low[1], low[2]>>

\* schoolbook division by d, which has its top bit set: the digits of the
\* quotient, most significant first, that the digits hi down to lo of n give,
\* and the remainder they leave; r is the remainder left above hi
RECURSIVE LongDivide(_, _, _, _, _)
DivideLower(n, d, lo, hi, up) == JoinQuotient(up[1], LongDivide(n, d, lo, hi, up[2]))

LongDivide(n, d, lo, hi, r) ==
    IF lo > hi THEN << <<>>, r >>
    ELSE IF lo = hi THEN DivideLimb(BringDown(r, n[lo]), d)
    ELSE DivideLower(n, d, lo, (lo + hi) \div 2,
                     LongDivide(n, d, (lo + hi) \div 2 + 1, hi, r))

\* the number whose digits are q, most significant first
Reversed(q) == Trim([i \in 1..Len(q) |-> q[Len(q) + 1 - i]])

\* division by d, which has its top bit set: the leading digits of n, one
\* fewer than d has, are less than d and give no digit of the quotient
DivideFrom(n, d) ==
    IF Len(n) < Len(d) THEN << <<>>, n >>
    ELSE LongDivide(n, d, 1, Len(n) - Len(d) + 1, SubSeq(n, Len(n) - Len(d) + 2, Len(n)))

\* n and d scaled by the same power of two, so that d has its top bit set
DivideScaled(n, d, s) == DivideFrom(BigShl(n, s), BigShl(d, s))

Exactness(qr) == <<Reversed(qr[1]), qr[2] # <<>> >>

\* <<floor(n / d), n mod d # 0>> for d > 0
BigDiv(n, d) == Exactness(DivideScaled(n, d, LimbBits - BitLength(d[Len(d)])))

(***************************************************************************)
(* Floats: IEEE-754 doubles.  A finite double is <<s, e, m>> of value      *)
(* s * m * 2^e with s = 1 or -1, MinExp <= e <= MaxExp and m < 2^53, where *)
(* m >= 2^52 unless e = MinExp (zeros and subnormals); an infinity is      *)
(* <<s, MaxExp + 1, <<>> >>; NaN is <<0, 0, <<>> >>.                       *)
(***************************************************************************)
Precision == 53

MinExp == -1074

MaxExp == 971

NaN == <<0, 0, <<>> >>

Inf(s) == <<s, MaxExp + 1, <<>> >>

Zero(s) == <<s, MinExp, <<>> >>

IsNaN(x) == x[1] = 0

IsInf(x) == x[2] > MaxExp

IsFinite(x) == x[1] # 0 /\ x[2] <= MaxExp

IsZero(x) == IsFinite(x) /\ x[3] = <<>>

Abs(x) == IF x < 0 THEN -x ELSE x

Sign(x) == IF x < 0 THEN -1 ELSE 1

\* the double s * m * 2^e for m <= 2^53, inf when it is beyond the largest double
Ranged(s, m, e) == IF e > MaxExp THEN Inf(s) ELSE <<s, e, m>>

Normal(s, m, e) ==
    IF BigBits(m) > Precision THEN Ranged(s, BigShr(m, 1), e + 1) ELSE Ranged(s, m, e)

\* floor(n / 2^k) rounded to nearest, ties to even; inexact says that n
\* stands for a value strictly between n and n + 1
Nearest(n, k, inexact) ==
    IF BigBit(n, k - 1) = 1 /\ (inexact \/ ~BigLowZero(n, k - 1) \/ BigBit(n, k) = 1)
      THEN BigAdd(BigShr(n, k), <<1>>)
      ELSE BigShr(n, k)

\* the double nearest to s * n * 2^e with 2^q the unit of its significand
RoundAt(s, n, e, inexact, q) ==
    IF q <= e THEN Normal(s, BigShl(n, e - q), q)
    ELSE Normal(s, Nearest(n, q - e, inexact), q)

\* the double nearest to s * n * 2^e, n > 0 (a value strictly between n and
\* n + 1 if inexact, n then having more than Precision + 1 bits)
Round(s, n, e, inexact) ==
    RoundAt(s, n, e, inexact,
            IF e + BigBits(n) - Precision > MinExp THEN e + BigBits(n) - Precision ELSE MinExp)

\* the double nearest to s * (n / d) * 2^e, n > 0 and d > 0
RoundQuotient(s, qr, e) == Round(s, qr[1], e, qr[2])

RatioShifted(s, n, d, e, k) == RoundQuotient(s, BigDiv(BigShl(n, k), d), e - k)

Ratio(s, n, d, e) ==
    RatioShifted(s, n, d, e,
                 IF Precision + 2 + BigBits(d) - BigBits(n) > 0
                   THEN Precision + 2 + BigBits(d) - BigBits(n) ELSE 0)

\* float(n) for an integer n
F(n) == IF n = 0 THEN Zero(1) ELSE Round(Sign(n), BigOf(Abs(n)), 0, FALSE)

\* sa * ma * 2^e + sb * mb * 2^e
AddExact(sa, ma, sb, mb, e) ==
    IF sa = sb THEN Round(sa, BigAdd(ma, mb), e, FALSE)
    ELSE IF BigCmp(ma, mb) = 0 THEN Zero(1)
    ELSE IF BigCmp(ma, mb) > 0 THEN Round(sa, BigSub(ma, mb), e, FALSE)
    ELSE Round(sb, BigSub(mb, ma), e, FALSE)

\* a + b for finite non-zero a and b with a[2] >= b[2]; a b below a quarter
\* of the last bit of a only decides which side of a the sum lies on
AddAligned(a, b) ==
    IF a[2] - b[2] > Precision + 2
      THEN IF a[1] = b[1]
             THEN Round(a[1], BigShl(a[3], 2), a[2] - 2, TRUE)
             ELSE Round(a[1], BigSub(BigShl(a[3], 2), <<1>>), a[2] - 2, TRUE)
      ELSE AddExact(a[1], BigShl(a[3], a[2] - b[2]), b[1], b[3], b[2])

\* x + y
Add(x, y) ==
    IF IsNaN(x) \/ IsNaN(y) THEN NaN
    ELSE IF IsInf(x) THEN (IF IsInf(y) /\ x[1] # y[1] THEN NaN ELSE x)
    ELSE IF IsInf(y) THEN y
    ELSE IF x[3] = <<>> THEN (IF y[3] # <<>> THEN y ELSE IF x[1] = y[1] THEN x ELSE Zero(1))
    ELSE IF y[3] = <<>> THEN x
    ELSE IF x[2] >= y[2] THEN AddAligned(x, y)
    ELSE AddAligned(y, x)

Sub(x, y) == Add(x, <<-y[1], y[2], y[3]>>)

\* x * y
Mul(x, y) ==
    IF IsNaN(x) \/ IsNaN(y) THEN NaN
    ELSE IF IsInf(x) \/ IsInf(y)
      THEN (IF IsZero(x) \/ IsZero(y) THEN NaN ELSE Inf(x[1] * y[1]))
    ELSE IF x[3] = <<>> \/ y[3] = <<>> THEN Zero(x[1] * y[1])
    ELSE Round(x[1] * y[1], BigMul(x[3], y[3]), x[2] + y[2], FALSE)

\* x / y with numpy float64 semantics: x / 0 is nan or +-inf, never an exception
Div(x, y) ==
    IF IsNaN(x) \/ IsNaN(y) THEN NaN
    ELSE IF IsInf(x) THEN (IF IsInf(y) THEN NaN ELSE Inf(x[1] * y[1]))
    ELSE IF IsInf(y) THEN Zero(x[1] * y[1])
    ELSE IF y[3] = <<>> THEN (IF x[3] = <<>> THEN NaN ELSE Inf(x[1] * y[1]))
    ELSE IF x[3] = <<>> THEN Zero(x[1] * y[1])
    ELSE Ratio(x[1] * y[1], x[3], y[3], x[2] - y[2])

\* -1, 0 or 1 as |x| < |y|, |x| = |y| or |x| > |y|, neither being NaN
CmpAbs(x, y) ==
    IF x[2] < y[2] THEN -1
    ELSE IF x[2] > y[2] THEN 1
    ELSE BigCmp(x[3], y[3])

\* x < y; every comparison with NaN is false, and -0.0 equals 0.0
Lt(x, y) ==
    /\ ~IsNaN(x)
    /\ ~IsNaN(y)
    /\ IF x[1] # y[1] THEN x[1] < y[1] /\ ~(IsZero(x) /\ IsZero(y))
       ELSE IF x[1] = 1 THEN CmpAbs(x, y) < 0
       ELSE CmpAbs(x, y) > 0

\* x <= y; every comparison with NaN is false
Le(x, y) == ~IsNaN(x) /\ ~IsNaN(y) /\ ~Lt(y, x)


(***************************************************************************)
(* Strings                                                                 *)
(***************************************************************************)
\* A string is the sequence of its characters.  An ASCII character is written
\* as itself; a whitespace character outside ASCII's printable range is
\* written by its code point ("U+00A0"); "Nd0" .. "Nd9" stand for any
\* non-ASCII character whose Unicode decimal-digit value is 0 .. 9.
Digits == <<"0", "1", "2", "3", "4", "5", "6", "7", "8", "9">>

\* the decimal digits of other scripts, which float() reads by their value
NonAsciiDigits == <<"Nd0", "Nd1", "Nd2", "Nd3", "Nd4", "Nd5", "Nd6", "Nd7", "Nd8", "Nd9">>

DigitCharacters == {Digits[i] : i \in 1..10} \cup {NonAsciiDigits[i] : i \in 1..10}

IsDigit(c) == c \in DigitCharacters

DigitVal(c) == (CHOOSE i \in 1..10 : Digits[i] = c \/ NonAsciiDigits[i] = c) - 1

\* index of the first occurrence of character c in s at or after i, 0 if none
FindChar(s, c, i) == FirstTrue([k \in 1..Len(s) |-> s[k] = c], i, Len(s))

\* the pieces of s[lo..hi] between the occurrences of c: those before and
\* those after the occurrence k, an occurrence near the middle
RECURSIVE SplitIn(_, _, _, _)
SplitAt(s, c, lo, hi, k) ==
    IF k = 0 THEN <<SubSeq(s, lo, hi)>>
    ELSE SplitIn(s, c, lo, k - 1) \o SplitIn(s, c, k + 1, hi)

SplitIn(s, c, lo, hi) ==
    IF lo > hi THEN << <<>> >>
    ELSE SplitAt(s, c, lo, hi,
                 FirstOr(FirstTrue([k \in 1..Len(s) |-> s[k] = c], (lo + hi) \div 2, hi),
                         [k \in 1..Len(s) |-> s[k] = c], lo, (lo + hi) \div 2 - 1))

\* s.split(c) for a one-character separator c
Split(s, c) == SplitIn(s, c, 1, Len(s))

\* index of the first occurrence of the substring "MP" in s at or after i, 0 if none
FindMP(s, i) ==
    FirstTrue([k \in 1..(Len(s) - 1) |-> s[k] = "M" /\ s[k + 1] = "P"], i, Len(s) - 1)

\* the part of s before position k, all of s if k = 0
BeforeAt(s, k) == IF k = 0 THEN s ELSE SubSeq(s, 1, k - 1)

\* the part of s after position k, nothing if k = 0
AfterAt(s, k) == IF k = 0 THEN <<>> ELSE SubSeq(s, k + 1, Len(s))

\* s.split('MP')[0]
BeforeMP(s) == BeforeAt(s, FindMP(s, 1))

\* the characters c with c.isspace(), which str.strip() and float() remove
Whitespace ==
    { "\t", "\n", "U+000B", "\f", "\r", "U+001C", "U+001D", "U+001E", "U+001F", " ",
      "U+0085", "U+00A0", "U+1680", "U+2000", "U+2001", "U+2002", "U+2003", "U+2004",
      "U+2005", "U+2006", "U+2007", "U+2008", "U+2009", "U+200A", "U+2028", "U+2029",
      "U+202F", "U+205F", "U+3000" }

\* the part of s from position k on, nothing if k = 0
From(s, k) == IF k = 0 THEN <<>> ELSE SubSeq(s, k, Len(s))

LStrip(s) == From(s, FirstTrue([k \in 1..Len(s) |-> s[k] \notin Whitespace], 1, Len(s)))

RStrip(s) == SubSeq(s, 1, LastTrue([k \in 1..Len(s) |-> s[k] \notin Whitespace], 1, Len(s)))

\* s.strip()
Strip(s) == LStrip(RStrip(s))

\* the number a short sequence of digits denotes
RECURSIVE DigitsValue(_)
DigitsValue(s) ==
    IF s = <<>> THEN 0
    ELSE 10 * DigitsValue(SubSeq(s, 1, Len(s) - 1)) + DigitVal(s[Len(s)])

\* c.lower() for the letters float() reads case-insensitively
Lower(c) ==
    CASE c = "I" -> "i" [] c = "N" -> "n" [] c = "F" -> "f" [] c = "T" -> "t"
      [] c = "Y" -> "y" [] c = "A" -> "a" [] c = "E" -> "e" [] OTHER -> c

LowerSeq(s) == [i \in 1..Len(s) |-> Lower(s[i])]

\* the sign a float literal starts with
NumberSign(s) == IF s # <<>> /\ Head(s) = "-" THEN -1 ELSE 1

\* a float literal without its leading sign
Unsigned(s) == IF s # <<>> /\ Head(s) \in {"+", "-"} THEN Tail(s) ELSE s

InfTexts == { <<"i", "n", "f">>, <<"i", "n", "f", "i", "n", "i", "t", "y">> }

NanText == <<"n", "a", "n">>

\* digits, single underscores allowed between two digits
DigitPartOk(t) ==
    /\ t # <<>>
    /\ \A i \in 1..Len(t) : IsDigit(t[i]) \/ t[i] = "_"
    /\ IsDigit(t[1])
    /\ IsDigit(t[Len(t)])
    /\ \A i \in 1..(Len(t) - 1) : ~(t[i] = "_" /\ t[i + 1] = "_")

DigitsOf(t) == SelectSeq(t, IsDigit)

\* position of the exponent marker of an unsigned literal, 0 if none
ExpAt(b) == FindChar(LowerSeq(b), "e", 1)

Mantissa(b) == BeforeAt(b, ExpAt(b))

Exponent(b) == AfterAt(b, ExpAt(b))

IntPart(m) == BeforeAt(m, FindChar(m, ".", 1))

FracPart(m) == AfterAt(m, FindChar(m, ".", 1))

\* an integer part ip and a fraction fp, one of which may be missing
PartsOk(ip, fp) ==
    /\ ip = <<>> \/ DigitPartOk(ip)
    /\ fp = <<>> \/ DigitPartOk(fp)
    /\ ip # <<>> \/ fp # <<>>

MantissaOk(m) == PartsOk(IntPart(m), FracPart(m))

DecimalOk(b) ==
    /\ MantissaOk(Mantissa(b))
    /\ ExpAt(b) = 0 \/ DigitPartOk(Unsigned(Exponent(b)))

\* an unsigned literal: inf, infinity or nan in any case, or a decimal literal
\* with an optional fraction and exponent
LiteralOk(b, lowered) ==
    \/ lowered \in InfTexts
    \/ lowered = NanText
    \/ DecimalOk(b)

UnsignedOk(b) == LiteralOk(b, LowerSeq(b))

\* float(s) succeeds: s is, between whitespace and after an optional sign,
\* an unsigned literal
FloatOk(s) == UnsignedOk(Unsigned(Strip(s)))

DropLeadingZeros(d) ==
    From(d, FirstTrue([k \in 1..Len(d) |-> DigitVal(d[k]) # 0], 1, Len(d)))

DropTrailingZeros(d) ==
    SubSeq(d, 1, LastTrue([k \in 1..Len(d) |-> DigitVal(d[k]) # 0], 1, Len(d)))

BigSquare(a) == BigMul(a, a)

\* 10^k
RECURSIVE BigPow10(_)
BigPow10(k) ==
    IF k = 0 THEN <<1>>
    ELSE IF k % 2 = 1 THEN BigScale(BigPow10(k - 1), 10)
    ELSE BigSquare(BigPow10(k \div 2))

\* the number a sequence of digits denotes
RECURSIVE BigOfDigits(_)
BigOfDigits(d) ==
    IF Len(d) <= 4 THEN BigOf(DigitsValue(d))
    ELSE BigAdd(BigMul(BigOfDigits(SubSeq(d, 1, Len(d) \div 2)),
                       BigPow10(Len(d) - Len(d) \div 2)),
                BigOfDigits(SubSeq(d, Len(d) \div 2 + 1, Len(d))))

\* sa * ma + sb * mb as <<sign, magnitude>>
SignedAdd(sa, ma, sb, mb) ==
    IF sa = sb THEN <<sa, BigAdd(ma, mb)>>
    ELSE IF BigCmp(ma, mb) >= 0 THEN <<sa, BigSub(ma, mb)>>
    ELSE <<sb, BigSub(mb, ma)>>

\* x + k for x = <<sign, magnitude>> and an integer k
Shifted(x, k) == SignedAdd(x[1], x[2], Sign(k), BigOf(Abs(k)))

\* the exponent of a literal as <<sign, magnitude>>, 0 when there is none
ExponentValue(x) == <<NumberSign(x), BigOfDigits(DigitsOf(Unsigned(x)))>>

\* 0.1 * 10^p is beyond the largest double for p > DecimalMax
DecimalMax == 309

\* 10^p is below half of the smallest positive double for p < DecimalMin
DecimalMin == -323

\* the double nearest to sg * n * 10^k
Scaled(sg, n, k) ==
    IF k >= 0 THEN Round(sg, BigMul(n, BigPow10(k)), 0, FALSE)
    ELSE Ratio(sg, n, BigPow10(-k), 0)

\* the double nearest to sg * 0.sig * 10^p, sig digits that start and end
\* with a non-zero one and p = <<sign, magnitude>>
Rounded(sg, sig, p) ==
    IF sig = <<>> THEN Zero(sg)
    ELSE IF p[1] = 1 /\ BigCmp(p[2], BigOf(DecimalMax)) > 0 THEN Inf(sg)
    ELSE IF p[1] = -1 /\ BigCmp(p[2], BigOf(-DecimalMin)) > 0 THEN Zero(sg)
    ELSE Scaled(sg, BigOfDigits(sig), p[1] * Limb(p[2], 1) - Len(sig))

\* the double nearest to sg * nz * 10^scale, nz digits starting with a non-zero one
ScaledValue(sg, nz, scale) == Rounded(sg, DropTrailingZeros(nz), Shifted(scale, Len(nz)))

\* the double nearest to sg * 0.all * 10^point, all the digits of a mantissa
PointValue(sg, all, point) ==
    ScaledValue(sg, DropLeadingZeros(all), Shifted(point, -Len(all)))

\* the double nearest to the mantissa ip.fp times 10^e
PartsValue(sg, ip, fp, e) == PointValue(sg, ip \o fp, Shifted(e, Len(ip)))

MantissaValue(sg, m, e) == PartsValue(sg, DigitsOf(IntPart(m)), DigitsOf(FracPart(m)), e)

\* the value of the decimal literal b with sign sg, correctly rounded
DecimalValue(sg, b) == MantissaValue(sg, Mantissa(b), ExponentValue(Exponent(b)))

LiteralValue(sg, b, lowered) ==
    IF lowered \in InfTexts THEN Inf(sg)
    ELSE IF lowered = NanText THEN NaN
    ELSE DecimalValue(sg, b)

SignedValue(t, b) == LiteralValue(NumberSign(t), b, LowerSeq(b))

StrippedValue(t) == SignedValue(t, Unsigned(t))

\* float(s) when FloatOk(s)
FloatOf(s) == StrippedValue(Strip(s))

(***************************************************************************)
(* The loaded table (global df, lines 9-24): rows as load_data leaves them *)
(***************************************************************************)
NoBrand == "None"

Str(s) == [str |-> TRUE, s |-> s]

NotAString == [str |-> FALSE, s |-> <<>>]

Row(b, p, r, bat, cam) ==
    [brand |-> b, price |-> p, ram |-> r, battery |-> bat, camera |-> cam]

\* cells of the camera column
Cameras ==
    [ \* "50MP+8MP+2MP"
      three |-> Str(<<"5", "0", "M", "P", "+", "8", "M", "P", "+", "2", "M", "P">>),
      \* "\xa050\xa0MP", no-break spaces around the digits
      nbsp |-> Str(<<"U+00A0", "5", "0", "U+00A0", "M", "P">>),
      \* "50MP+x"
      mixed |-> Str(<<"5", "0", "M", "P", "+", "x">>),
      \* "1e-400MP+٥٠\x0b", an underflowing literal and Arabic-Indic digits
      tiny |-> Str(<<"1", "e", "-", "4", "0", "0", "M", "P", "+", "Nd5", "Nd0", "U+000B">>),
      \* "12 MP + 8 MP x"
      spaced |-> Str(<<"1", "2", " ", "M", "P", " ", "+", " ", "8", " ", "M", "P", " ", "x">>),
      \* "50mp"
      lower |-> Str(<<"5", "0", "m", "p">>),
      \* "1e400"
      huge |-> Str(<<"1", "e", "4", "0", "0">>),
      \* "48"
      bare |-> Str(<<"4", "8">>),
      \* "8MP+"
      trailing |-> Str(<<"8", "M", "P", "+">>),
      \* "MP+8MP+2MP"
      noNumber |-> Str(<<"M", "P", "+", "8", "M", "P", "+", "2", "M", "P">>),
      \* "12.2 MP + 8 MP"
      fraction |-> Str(<<"1", "2", ".", "2", " ", "M", "P", " ", "+", " ", "8", " ", "M", "P">>),
      \* "12.5MP"
      half |-> Str(<<"1", "2", ".", "5", "M", "P">>),
      \* "\t50MP"
      tab |-> Str(<<"\t", "5", "0", "M", "P">>),
      \* "inf"
      inf |-> Str(<<"i", "n", "f">>),
      \* "NaN MP"
      nan |-> Str(<<"N", "a", "N", " ", "M", "P">>),
      \* "1e2+.5+5_0"
      exp |-> Str(<<"1", "e", "2", "+", ".", "5", "+", "5", "_", "0">>),
      \* "-3MP+1E-1"
      negative |-> Str(<<"-", "3", "M", "P", "+", "1", "E", "-", "1">>),
      \* "5__0+1.2.3+e5+1e+-"
      badNumbers |-> Str(<<"5", "_", "_", "0", "+", "1", ".", "2", ".", "3", "+", "e", "5",
                           "+", "1", "e", "+", "-">>),
      \* "1e308MP+1e308MP", two values whose sum is beyond the largest double
      overflow |-> Str(<<"1", "e", "3", "0", "8", "M", "P", "+",
                         "1", "e", "3", "0", "8", "M", "P">>),
      \* "0.1MP+0.2MP+0.3MP", values whose sum is rounded at every addition
      tenths |-> Str(<<"0", ".", "1", "M", "P", "+", "0", ".", "2", "M", "P", "+",
                       "0", ".", "3", "M", "P">>) ]

Rows == <<
    Row("A", F(20000), F(2), F(4000), Cameras.lower),
    Row(NoBrand, F(10000), F(8), NaN, NotAString),
    Row("B", NaN, F(8), F(4000), Cameras.bare),
    Row("A", F(20000), F(8), F(4000), Cameras.half),
    Row("B", F(10000), F(0), F(0), Cameras.inf),
    Row(NoBrand, F(20000), NaN, NaN, NotAString),
    Row("A", NaN, F(6), F(3000), Cameras.bare),
    Row("B", F(40000), F(4), F(5000), Cameras.spaced),
    Row("A", F(30000), F(16), F(2000), Cameras.nbsp),
    Row("B", F(5000), NaN, F(0), Cameras.tiny),
    Row("A", F(20000), F(0), NaN, Cameras.lower),
    Row("B", F(30000), F(4), F(4000), Cameras.trailing),
    Row("A", F(40000), F(0), F(2000), Cameras.noNumber),
    Row("B", F(10000), F(0), F(0), Cameras.huge),
    Row("A", F(20000), F(8), F(4000), Cameras.three),
    Row("B", F(20000), F(4), F(2000), Cameras.fraction),
    Row("A", F(10000), F(8), NaN, Cameras.tab),
    Row("B", F(30000), F(4), F(4000), Cameras.mixed),
    Row("A", F(20000), F(8), F(2000), Cameras.nan),
    Row("B", F(20000), NaN, F(4000), Cameras.exp),
    Row("A", F(30000), F(4), F(2000), Cameras.negative),
    Row("B", F(20000), F(8), F(4000), Cameras.badNumbers),
    Row("A", F(20000), F(6), F(5000), Cameras.overflow),
    Row("B", F(30000), F(2), F(0), Cameras.tenths) >>

\* rows the ranking specification draws its catalog from
RankRows == {Rows[i] : i \in 1..2}

\* rows the scoring specification draws the scored row from
ScoreRows == {Rows[i] : i \in 1..Len(Rows)}

\* rows the scoring specification draws the other rows of its catalog from
PeerRows == {Rows[i] : i \in 4..5}

MaxCatalog == 4

MaxPeers == 1

MaxChatCatalog == 2

MaxHistory == 4

SeqsUpTo(S, n) == UNION {[1..k -> S] : k \in 0..n}

\* the options of the "Main Priority" selectbox
Priorities == {"Performance", "Camera", "Battery", "Display", "Balanced"}

\* the slider's default value and two other positions of it
PriceRanges == { <<F(10000), F(30000)>>, <<F(5000), F(10000)>>, <<F(20000), F(40000)>> }

DefaultRange == <<F(10000), F(30000)>>

\* the options of the "Preferred Brands" multiselect
BrandOptions(df) == {df[i].brand : i \in DOMAIN df} \ {NoBrand}

(***************************************************************************)
(* score_phone                                                             *)
(***************************************************************************)
\* the numbers written in score_phone
Literals ==
    [one |-> F(1),
     half |-> FloatOf(<<"0", ".", "5">>),
     two |-> F(2),
     hundred |-> F(100),
     performance |-> FloatOf(<<"1", ".", "2">>),
     camera |-> FloatOf(<<"1", ".", "1">>),
     battery |-> FloatOf(<<"1", ".", "1", "5">>)]

\* df[col].max(): the largest value that is not NaN, NaN when there is none
ColumnMax(df, col) ==
    LET vals == {df[i][col] : i \in DOMAIN df} \ {NaN}
    IN  IF vals = {} THEN NaN
        ELSE CHOOSE m \in vals : \A v \in vals : Le(v, m)

\* BudgetAgent with exclusive bounds
BudgetAgentExclusive(score, row, budget_min, budget_max) ==
    IF Lt(budget_min, row.price) /\ Lt(row.price, budget_max)
      THEN Add(score, Literals.one)
      ELSE Sub(score, Literals.half)

BudgetAgent(score, row, budget_min, budget_max) ==
    IF Le(budget_min, row.price) /\ Le(row.price, budget_max)
      THEN Add(score, Literals.one)
      ELSE Sub(score, Literals.half)

PerformanceAgent(score, row, df) ==
    IF ~IsNaN(row.ram)
      THEN Add(score, Mul(Div(row.ram, ColumnMax(df, "ram")), Literals.two))
      ELSE score

BatteryAgent(score, row, df) ==
    IF ~IsNaN(row.battery)
      THEN Add(score, Div(row.battery, ColumnMax(df, "battery")))
      ELSE score

\* [c.split('MP')[0].strip() for c in segs[lo..hi]]
RECURSIVE NumberTexts(_, _, _)
NumberTexts(segs, lo, hi) ==
    IF lo > hi THEN <<>>
    ELSE IF lo = hi THEN <<Strip(BeforeMP(segs[lo]))>>
    ELSE NumberTexts(segs, lo, (lo + hi) \div 2) \o NumberTexts(segs, (lo + hi) \div 2 + 1, hi)

\* c.split('MP')[0].strip() for each c in camera.split('+')
CamTexts(s) == NumberTexts(Split(s, "+"), 1, Len(Split(s, "+")))

\* [float(t) for t in texts[lo..hi]]
RECURSIVE Floats(_, _, _)
Floats(texts, lo, hi) ==
    IF lo > hi THEN <<>>
    ELSE IF lo = hi THEN <<FloatOf(texts[lo])>>
    ELSE Floats(texts, lo, (lo + hi) \div 2) \o Floats(texts, (lo + hi) \div 2 + 1, hi)

\* total + xs[lo] + ... + xs[hi], added one after the other from the left (a
\* total that is NaN stays NaN)
RECURSIVE SumFrom(_, _, _, _)
SumRest(total, xs, lo, hi) == IF IsNaN(total) THEN NaN ELSE SumFrom(total, xs, lo, hi)

SumFrom(total, xs, lo, hi) ==
    IF lo > hi THEN total
    ELSE IF lo = hi THEN Add(total, xs[lo])
    ELSE SumRest(SumFrom(total, xs, lo, (lo + hi) \div 2), xs, (lo + hi) \div 2 + 1, hi)

\* sum(xs): 0 + xs[1] + ... + xs[n] in this order, each addition rounded, as
\* CPython adds floats up to version 3.11
SumSeq(xs) == SumFrom(F(0), xs, 1, Len(xs))

\* lines 72-73: cam_val = sum(cam_vals) / len(cam_vals); score += cam_val / 100
AddAverage(score, cam_vals) ==
    Add(score, Div(Div(SumSeq(cam_vals), F(Len(cam_vals))), Literals.hundred))

\* TryCamera that skips the texts that do not convert and averages the rest
TryCameraPerSegment(score, texts) ==
    IF \E i \in 1..Len(texts) : FloatOk(texts[i])
      THEN AddAverage(score, Floats(SelectSeq(texts, FloatOk), 1,
                                    Len(SelectSeq(texts, FloatOk))))
      ELSE score

\* lines 70-75: every text is converted, and one failure leaves the score alone
TryCamera(score, texts) ==
    IF \A i \in 1..Len(texts) : FloatOk(texts[i])
      THEN AddAverage(score, Floats(texts, 1, Len(texts)))
      ELSE score

CameraAgent(score, row) ==
    IF row.camera.str THEN TryCamera(score, CamTexts(row.camera.s)) ELSE score

\* PriorityAdjust with a multiplier for the Display priority as well
PriorityAdjustDisplay(score, prio) ==
    IF prio = "Performance" THEN Mul(score, Literals.performance)
    ELSE IF prio = "Camera" THEN Mul(score, Literals.camera)
    ELSE IF prio = "Battery" THEN Mul(score, Literals.battery)
    ELSE IF prio = "Display" THEN Mul(score, Literals.camera)
    ELSE score

PriorityAdjust(score, prio) ==
    IF prio = "Performance" THEN Mul(score, Literals.performance)
    ELSE IF prio = "Camera" THEN Mul(score, Literals.camera)
    ELSE IF prio = "Battery" THEN Mul(score, Literals.battery)
    ELSE score

\* the score after each agent, the last being the value score_phone returns
AfterCamera(s1, s2, s3, s4, prio) ==
    [budget |-> s1, ram |-> s2, battery |-> s3, camera |-> s4,
     final |-> PriorityAdjust(s4, prio)]

AfterBattery(row, prio, s1, s2, s3) ==
    AfterCamera(s1, s2, s3, CameraAgent(s3, row), prio)

AfterRam(df, row, prio, s1, s2) ==
    AfterBattery(row, prio, s1, s2, BatteryAgent(s2, row, df))

AfterBudget(df, row, prio, s1) ==
    AfterRam(df, row, prio, s1, PerformanceAgent(s1, row, df))

\* the value of the local variable score after each agent of score_phone,
\* evaluated against the table df
ScoreStages(df, row, prio, budget_min, budget_max) ==
    AfterBudget(df, row, prio, BudgetAgent(F(0), row, budget_min, budget_max))

\* score_phone reads the module-level df, whatever frame its caller holds
score_phone(row, prio, budget_min, budget_max) ==
    ScoreStages(catalog, row, prio, budget_min, budget_max)

\* ScoreColumn with score_phone normalising by the maxima of the frame it is
\* applied to instead of those of the module-level df
ScoreColumnLocalMax(frame, prio, range) ==
    [k \in 1..Len(frame) |->
        [label |-> frame[k],
         stages |-> ScoreStages([j \in 1..Len(frame) |-> catalog[frame[j]]],
                                catalog[frame[k]], prio, range[1], range[2])]]

\* df["score"] = df.apply(lambda x: score_phone(x, priority, price_range[0],
\* price_range[1]), axis=1): each row of the filtered frame with its score,
\* and with the stages score_phone went through (an empty frame gives an
\* empty column)
ScoreColumn(frame, prio, range) ==
    [k \in 1..Len(frame) |->
        [label |-> frame[k],
         stages |-> score_phone(catalog[frame[k]], prio, range[1], range[2])]]

(***************************************************************************)
(* Scoring specification: score_phone applied to rows of the loaded table  *)
(***************************************************************************)
NoCall == [made |-> FALSE, idx |-> 0, priority |-> "Balanced", range |-> DefaultRange]

\* the loaded table: a row of ScoreRows and at most MaxPeers other rows
ScoreInit ==
    /\ catalog \in { <<r>> \o peers : r \in ScoreRows, peers \in SeqsUpTo(PeerRows, MaxPeers) }
    /\ price_range = DefaultRange
    /\ priority = "Performance"
    /\ brand_pref = {}
    /\ recommendations = <<>>
    /\ ui = "idle"
    /\ chat_history = <<>>
    /\ call = NoCall
    /\ trace = <<>>

\* one application of score_phone to a row of the loaded table
ScoreCall ==
    /\ ~call.made
    /\ \E i \in DOMAIN catalog, p \in Priorities, r \in PriceRanges :
        /\ call' = [made |-> TRUE, idx |-> i, priority |-> p, range |-> r]
        /\ trace' = ScoreColumn(<<i>>, p, r)
        /\ UNCHANGED <<catalog, price_range, priority, brand_pref,
                       recommendations, ui, chat_history>>

ScoreNext == ScoreCall

\* score_phone as a function of a row, the priority and the budget range
ScoreSpec == ScoreInit /\ [][ScoreNext]_vars

(***************************************************************************)
(* Properties of score_phone (checked under ScoreSpec)                     *)
(***************************************************************************)
CalledRow == catalog[call.idx]

\* the integer that a double x holding a whole number of less than 43 bits has
Whole(x) ==
    x[1] * (Limb(BigShr(x[3], -x[2]), 1) + Base * Limb(BigShr(x[3], -x[2]), 2)
              + Base * Base * Limb(BigShr(x[3], -x[2]), 3))

\* lo <= x <= hi for whole numbers lo, hi and a whole number or NaN x; false
\* when x is missing (NaN)
Within(x, lo, hi) ==
    /\ IsFinite(x)
    /\ Whole(lo) <= Whole(x)
    /\ Whole(x) <= Whole(hi)

\* the doubles 1.0 and -0.5
PlusOne == <<1, -52, <<0, 0, 0, 1024>> >>

MinusHalf == <<-1, -53, <<0, 0, 0, 1024>> >>

ExpectedBudgetTerm(row, lo, hi) ==
    IF Within(row.price, lo, hi) THEN PlusOne ELSE MinusHalf

\* C5: the budget term of score_phone is exactly +1.0 when
\* budget_min <= price <= budget_max (bounds inclusive) and exactly -0.5
\* otherwise, a missing price included; the call returns a score.
C5_BudgetTerm ==
    call.made =>
        /\ Len(trace) = 1
        /\ trace[1].stages.budget = ExpectedBudgetTerm(CalledRow, call.range[1], call.range[2])

\* a row priced exactly at budget_min was scored and got +1.0
C5_Witness ==
    /\ call.made
    /\ CalledRow.price = call.range[1]
    /\ trace[1].stages.budget = PlusOne

\* a row with a missing price was scored and got -0.5
C5_WitnessMissingPrice ==
    /\ call.made
    /\ IsNaN(CalledRow.price)
    /\ trace[1].stages.budget = MinusHalf

\* the doubles 1.2, 1.1 and 1.15, and 1.0 for the other priorities
Multiplier(prio) ==
    CASE prio = "Performance" -> <<1, -52, <<13107, 3276, 13107, 1228>> >>
      [] prio = "Camera" -> <<1, -52, <<6554, 9830, 6553, 1126>> >>
      [] prio = "Battery" -> <<1, -52, <<9830, 6553, 9830, 1177>> >>
      [] OTHER -> PlusOne

ExpectedRamTerm(row) ==
    IF IsNaN(row.ram) THEN F(0)
    ELSE Mul(F(2), Div(row.ram, ColumnMax(catalog, "ram")))

ExpectedBatteryTerm(row) ==
    IF IsNaN(row.battery) THEN F(0)
    ELSE Div(row.battery, ColumnMax(catalog, "battery"))

\* the texts of the segments of a camera cell that float() converts
ParsedTexts(cam) == IF cam.str THEN SelectSeq(CamTexts(cam.s), FloatOk) ELSE <<>>

ParsedSegments(cam) == Floats(ParsedTexts(cam), 1, Len(ParsedTexts(cam)))

SegmentCount(cam) == IF cam.str THEN Len(CamTexts(cam.s)) ELSE 0

\* ((0 + xs[1]) + xs[2]) + ... + xs[n]
RECURSIVE Total(_)
Total(xs) ==
    IF xs = <<>> THEN F(0)
    ELSE Add(Total(SubSeq(xs, 1, Len(xs) - 1)), xs[Len(xs)])

Average(xs) == Div(Total(xs), F(Len(xs)))

\* the camera term of a cell all of whose segments convert, 0 for another cell
ExpectedCameraTerm(cam) ==
    IF cam.str /\ Len(ParsedTexts(cam)) = SegmentCount(cam)
      THEN Div(Average(ParsedSegments(cam)), F(100))
      ELSE F(0)

RawScore(row, lo, hi) ==
    Add(Add(Add(ExpectedBudgetTerm(row, lo, hi), ExpectedRamTerm(row)),
            ExpectedBatteryTerm(row)),
        ExpectedCameraTerm(row.camera))

\* C6: the priority multiplier is applied exactly once, after all additive
\* terms: the result is m * rawScore, rawScore being the sum of the budget,
\* RAM, battery and camera terms, m = 1.2 (Performance), 1.1 (Camera),
\* 1.15 (Battery), 1.0 (Display, Balanced).
C6_MultiplierOnce ==
    call.made =>
        /\ trace[1].stages.camera = RawScore(CalledRow, call.range[1], call.range[2])
        /\ trace[1].stages.final = Mul(Multiplier(call.priority), trace[1].stages.camera)

\* a finite, non-zero raw score was multiplied by 1.2 for Performance
C6_Witness ==
    /\ call.made
    /\ call.priority = "Performance"
    /\ IsFinite(trace[1].stages.camera)
    /\ ~IsZero(trace[1].stages.camera)
    /\ trace[1].stages.final = Mul(Multiplier("Performance"), trace[1].stages.camera)
    /\ trace[1].stages.final # trace[1].stages.camera

\* C8: when the catalog-wide maximum of ram (battery) is zero or undefined,
\* the RAM (battery) term is skipped: it contributes exactly 0.
C8_ZeroMaxSkipsTerm ==
    call.made =>
        /\ (IsZero(ColumnMax(catalog, "ram")) \/ IsNaN(ColumnMax(catalog, "ram")))
              => trace[1].stages.ram = trace[1].stages.budget
        /\ (IsZero(ColumnMax(catalog, "battery")) \/ IsNaN(ColumnMax(catalog, "battery")))
              => trace[1].stages.battery = trace[1].stages.ram

\* C9 as stated: the camera term is (average of the segments that parse) / 100,
\* and 0 only when camera is not a string or no segment parses.
C9_AverageOfParsedSegments ==
    call.made =>
        trace[1].stages.camera =
            Add(trace[1].stages.battery,
                IF ParsedTexts(CalledRow.camera) = <<>> THEN F(0)
                ELSE Div(Average(ParsedSegments(CalledRow.camera)), F(100)))

\* camera terms that the program computes: 0.2 for "50MP+8MP+2MP",
\* 0.10099999999999999 for "12.2 MP + 8 MP", 0.0020000000000000005 for
\* "0.1MP+0.2MP+0.3MP" (the additions round: the exact sum gives 0.002), inf
\* for "1e308MP+1e308MP" (the sum overflows), 0 for "50MP+x"
CameraTermExamples ==
    { <<Cameras.three, <<1, -55, <<6554, 9830, 6553, 1638>> >> >>,
      <<Cameras.fraction, <<1, -56, <<8257, 917, 12845, 1654>> >> >>,
      <<Cameras.tenths, <<1, -61, <<10749, 3014, 9437, 1048>> >> >>,
      <<Cameras.overflow, <<1, 972, <<>> >> >>,
      <<Cameras.mixed, <<1, -1074, <<>> >> >> }

\* C9 amended: when camera is a string and every '+'-separated segment
\* converts, the camera term is (sum / count) / 100 computed in double
\* arithmetic on the values of all segments, the sum being 0 + v1 + v2 + ...
\* added from the left with every addition rounded (so the term is infinite
\* when the sum overflows); it is 0, with no error, when camera is not a
\* string or at least one segment fails to convert.  The scores of
\* "1e308MP+1e308MP" and, from a score of 0, of "0.1MP+0.2MP+0.3MP" are the
\* doubles inf and 0.0020000000000000005.
C9_AllOrNothing ==
    call.made =>
        /\ trace[1].stages.camera =
              Add(trace[1].stages.battery, ExpectedCameraTerm(CalledRow.camera))
        /\ (~CalledRow.camera.str
              \/ Len(ParsedTexts(CalledRow.camera)) < SegmentCount(CalledRow.camera))
              => trace[1].stages.camera = trace[1].stages.battery
        /\ \A ex \in CameraTermExamples :
              CalledRow.camera = ex[1]
                  => trace[1].stages.camera = Add(trace[1].stages.battery, ex[2])
        /\ (CalledRow.camera = Cameras.overflow /\ IsFinite(trace[1].stages.battery))
              => trace[1].stages.camera = <<1, 972, <<>> >>
        /\ (CalledRow.camera = Cameras.tenths /\ IsZero(trace[1].stages.battery))
              => trace[1].stages.camera = <<1, -61, <<10749, 3014, 9437, 1048>> >>

\* a camera string with one parseable and one unparseable segment was scored
\* and its camera term was 0
C9_Witness ==
    /\ call.made
    /\ CalledRow.camera.str
    /\ ParsedTexts(CalledRow.camera) # <<>>
    /\ Len(ParsedTexts(CalledRow.camera)) < SegmentCount(CalledRow.camera)
    /\ IsFinite(trace[1].stages.battery)
    /\ trace[1].stages.camera = trace[1].stages.battery

\* a camera string whose segments all convert to finite values with an
\* infinite sum was scored, and the score became infinite
C9_WitnessOverflow ==
    /\ call.made
    /\ CalledRow.camera.str
    /\ Len(ParsedTexts(CalledRow.camera)) = SegmentCount(CalledRow.camera)
    /\ \A i \in 1..SegmentCount(CalledRow.camera) :
           IsFinite(ParsedSegments(CalledRow.camera)[i])
    /\ IsFinite(trace[1].stages.battery)
    /\ IsInf(trace[1].stages.camera)

\* a camera string whose segments all convert was scored with a score of 0
\* before the Camera Agent, and the additions of its sum rounded: the score
\* is 0.0020000000000000005 and not the 0.002 that the exact sum 0.6 of 0.1,
\* 0.2 and 0.3 gives
C9_WitnessRounding ==
    /\ call.made
    /\ CalledRow.camera = Cameras.tenths
    /\ IsZero(trace[1].stages.battery)
    /\ trace[1].stages.camera = <<1, -61, <<10749, 3014, 9437, 1048>> >>
    /\ trace[1].stages.camera # Div(Div(FloatOf(<<"0", ".", "6">>), F(3)), F(100))

(***************************************************************************)
(* recommend (lines 90-103).  A frame is the sequence of the row labels    *)
(* (positions in catalog) it holds, in order.                              *)
(***************************************************************************)
TopN == 3

WholeFrame(df) == [i \in 1..Len(df) |-> i]

\* PriceFilter without the upper bound
PriceFilterLowerOnly(frame, range) ==
    LET Keep(i) == Le(range[1], catalog[i].price)
    IN  SelectSeq(frame, Keep)

\* df[(df["price"] >= price_range[0]) & (df["price"] <= price_range[1])]
PriceFilter(frame, range) ==
    LET Keep(i) == Le(range[1], catalog[i].price) /\ Le(catalog[i].price, range[2])
    IN  SelectSeq(frame, Keep)

\* BrandFilter without the "if brand_pref" test
BrandFilterAlways(frame, brands) ==
    LET Keep(i) == catalog[i].brand \in brands
    IN  SelectSeq(frame, Keep)

\* if brand_pref: df = df[df["brand"].isin(brand_pref)]
BrandFilter(frame, brands) ==
    IF brands # {}
      THEN LET Keep(i) == catalog[i].brand \in brands
           IN  SelectSeq(frame, Keep)
      ELSE frame

\* the orders in which a descending sort that breaks ties arbitrarily may
\* leave the positions in S
RECURSIVE DescendingOrders(_, _)
DescendingOrders(S, scores) ==
    IF S = {} THEN { <<>> }
    ELSE UNION { { <<k>> \o rest : rest \in DescendingOrders(S \ {k}, scores) }
                 : k \in {j \in S : \A i \in S : ~Lt(scores[j], scores[i])} }

\* the positions in S in ascending order
RECURSIVE Ascending(_)
Ascending(S) ==
    IF S = {} THEN <<>>
    ELSE LET k == CHOOSE j \in S : \A i \in S : j <= i
         IN  <<k>> \o Ascending(S \ {k})

\* the positions 1..n in the orders sort_values(by="score", ascending=False)
\* may leave them in: rows whose score is not NaN first, by descending score,
\* rows with a NaN score last in their original order.  The default sort kind
\* (quicksort) is not stable, so rows with equal scores may come in any order.
SortOrders(scores) ==
    LET nans == {k \in 1..Len(scores) : IsNaN(scores[k])}
    IN  { p \o Ascending(nans) : p \in DescendingOrders((1..Len(scores)) \ nans, scores) }

\* HeadN that keeps one row too many
HeadNOffByOne(s, n) == SubSeq(s, 1, IF Len(s) < n + 1 THEN Len(s) ELSE n + 1)

\* .head(3)
HeadN(s, n) == SubSeq(s, 1, IF Len(s) < n THEN Len(s) ELSE n)

\* df.sort_values(by="score", ascending=False).head(3)[[..., "score"]]: the
\* frames that may result, rows as [label, score]; the display columns of a
\* row are those of catalog[label]
SortHead(scored) ==
    { HeadN([a \in 1..Len(scored) |->
                [label |-> scored[p[a]].label, score |-> scored[p[a]].stages.final]], TopN)
      : p \in SortOrders([k \in 1..Len(scored) |-> scored[k].stages.final]) }

\* the scored frame of recommend, before sorting
Scored(df, prio, range, brands) ==
    ScoreColumn(BrandFilter(PriceFilter(df, range), brands), prio, range)

\* the frames recommend may return
recommend(df, prio, range, brands) == SortHead(Scored(df, prio, range, brands))

\* int(x) raises ValueError for NaN and OverflowError for an infinity
IntRaises(x) == ~IsFinite(x)

\* formatting a result row (lines 117-122 and 151) raises
RowFormatRaises(r) ==
    \/ IntRaises(catalog[r.label].price)
    \/ IntRaises(catalog[r.label].ram)
    \/ IntRaises(catalog[r.label].battery)

(***************************************************************************)
(* The application: one script run per user interaction                    *)
(***************************************************************************)
Init ==
    /\ catalog \in SeqsUpTo(RankRows, MaxCatalog)
    /\ price_range = DefaultRange
    /\ priority = "Performance"
    /\ brand_pref = {}
    /\ recommendations = <<>>
    /\ ui = "idle"
    /\ chat_history = <<>>
    /\ call = NoCall
    /\ trace = <<>>

\* a run in which the button is not pressed shows no recommendations
NoButton ==
    /\ recommendations' = <<>>
    /\ ui' = "idle"
    /\ trace' = <<>>

SetPriceRange ==
    \E r \in PriceRanges \ {price_range} :
        /\ price_range' = r
        /\ NoButton
        /\ UNCHANGED <<catalog, priority, brand_pref, chat_history, call>>

SetPriority ==
    \E p \in Priorities \ {priority} :
        /\ priority' = p
        /\ NoButton
        /\ UNCHANGED <<catalog, price_range, brand_pref, chat_history, call>>

SetBrandPref ==
    \E b \in (SUBSET BrandOptions(catalog)) \ {brand_pref} :
        /\ brand_pref' = b
        /\ NoButton
        /\ UNCHANGED <<catalog, price_range, priority, chat_history, call>>

\* line 42: the free-text requirement is read and never used
SetUserText ==
    /\ NoButton
    /\ UNCHANGED <<catalog, price_range, priority, brand_pref, chat_history, call>>

\* lines 108-124
FindMyPhone ==
    /\ trace' = Scored(WholeFrame(catalog), priority, price_range, brand_pref)
    /\ \E recs \in SortHead(trace') :
        /\ recommendations' = recs
        /\ ui' = IF recs = <<>> THEN "warning"
                 ELSE IF \E k \in 1..Len(recs) : RowFormatRaises(recs[k]) THEN "exception"
                 ELSE "success"
    /\ UNCHANGED <<catalog, price_range, priority, brand_pref, chat_history, call>>

Next == SetUserText \/ SetPriceRange \/ SetPriority \/ SetBrandPref \/ FindMyPhone

\* sessions that use the form: the widgets and the "Find My Phone" button
Spec == Init /\ [][Next]_vars

(***************************************************************************)
(* The chat (lines 133-165).  The content of a chat entry is its text;     *)
(* a reply line (line 151) is represented by the label of the row it       *)
(* formats.                                                                *)
(***************************************************************************)
Messages == {"Recommend me a gaming phone under 20000"}

UserEntry(msg) == [role |-> "user", content |-> [text |-> msg, lines |-> <<>>]]

AssistantEntry(reply) == [role |-> "assistant", content |-> reply]

SorryReply ==
    [text |-> "Sorry, no phones found matching your criteria. Try changing your filters.",
     lines |-> <<>>]

LinesReply(top) == [text |-> "", lines |-> [k \in 1..Len(top) |-> top[k].label]]

\* lines 145-154 for the frame recs that recommend returned
ReplyFor(recs) ==
    IF recs = <<>> THEN [raised |-> FALSE, reply |-> SorryReply]
    ELSE LET top == HeadN(recs, TopN)
         IN  IF \E k \in 1..Len(top) : RowFormatRaises(top[k])
               THEN [raised |-> TRUE, reply |-> SorryReply]
               ELSE [raised |-> FALSE, reply |-> LinesReply(top)]

\* the outcomes of chat_response: a reply, or an exception raised while
\* formatting a line
chat_response(user_msg) ==
    { ReplyFor(recs) :
        recs \in recommend(WholeFrame(catalog), priority, price_range, brand_pref) }

ChatInit ==
    /\ catalog \in SeqsUpTo(RankRows, MaxChatCatalog)
    /\ price_range = DefaultRange
    /\ priority = "Performance"
    /\ brand_pref = {}
    /\ recommendations = <<>>
    /\ ui = "idle"
    /\ chat_history = <<>>
    /\ call = NoCall
    /\ trace = <<>>

\* lines 157-165: an exception in chat_response ends the script run after the
\* user entry was appended
ChatInput ==
    /\ Len(chat_history) + 2 <= MaxHistory
    /\ \E msg \in Messages :
        \E out \in chat_response(msg) :
            /\ chat_history' =
                  IF out.raised
                    THEN Append(chat_history, UserEntry(msg))
                    ELSE Append(Append(chat_history, UserEntry(msg)),
                                AssistantEntry(out.reply))
            /\ ui' = IF out.raised THEN "exception" ELSE "idle"
    /\ recommendations' = <<>>
    /\ trace' = <<>>
    /\ UNCHANGED <<catalog, price_range, priority, brand_pref, call>>

ChatNext ==
    SetUserText \/ SetPriceRange \/ SetPriority \/ SetBrandPref \/ FindMyPhone \/ ChatInput

\* sessions that also use the chat, over a smaller loaded table
ChatSpec == ChatInit /\ [][ChatNext]_vars

(***************************************************************************)
(* Properties of recommend and of the button handler (checked under Spec)  *)
(***************************************************************************)
\* FindMyPhone ran in the last script run (under Spec, where only the button
\* handler leaves ui other than "idle")
Ran == ui # "idle"

PriceOk(i) == Within(catalog[i].price, price_range[1], price_range[2])

BrandOk(i) == brand_pref = {} \/ catalog[i].brand \in brand_pref

Candidates == {i \in DOMAIN catalog : PriceOk(i) /\ BrandOk(i)}

Min(a, b) == IF a < b THEN a ELSE b

Labels(frame) == {frame[k].label : k \in 1..Len(frame)}

\* C1: recommend returns exactly min(3, number of candidates) records, the
\* candidates being the catalog records that pass the price and brand
\* filters; each returned record is a candidate and none is returned twice.
C1_ResultSize ==
    Ran =>
        /\ Len(recommendations) = Min(3, Cardinality(Candidates))
        /\ Labels(recommendations) \subseteq Candidates
        /\ Cardinality(Labels(recommendations)) = Len(recommendations)

\* more than 3 candidates existed and exactly 3 were returned
C1_Witness ==
    /\ Ran
    /\ Cardinality(Candidates) > 3
    /\ Len(recommendations) = 3

\* fewer than 3 (but some) candidates existed and all of them were returned
C1_WitnessFewer ==
    /\ Ran
    /\ Cardinality(Candidates) \in {1, 2}
    /\ Len(recommendations) = Cardinality(Candidates)

\* the score recommend computed for the candidate with label i
ScoreOfLabel(i) ==
    LET k == CHOOSE k \in 1..Len(trace) : trace[k].label = i
    IN  trace[k].stages.final

\* scores never increase along the result, rows with a NaN score come last,
\* and no scored candidate left out beats a returned one
SortedDescending ==
    /\ \A a, b \in 1..Len(recommendations) :
          a < b =>
            /\ ~Lt(recommendations[a].score, recommendations[b].score)
            /\ IsNaN(recommendations[a].score) => IsNaN(recommendations[b].score)
    /\ \A i \in Labels(trace) \ Labels(recommendations) :
          \A a \in 1..Len(recommendations) :
            /\ ~Lt(recommendations[a].score, ScoreOfLabel(i))
            /\ IsNaN(recommendations[a].score) => IsNaN(ScoreOfLabel(i))

\* returned records with equal score keep the order of the filtered frame
\* (ascending row label)
TiesKeepInputOrder ==
    \A a, b \in 1..Len(recommendations) :
        (a < b /\ Le(recommendations[a].score, recommendations[b].score)
               /\ Le(recommendations[b].score, recommendations[a].score))
            => recommendations[a].label < recommendations[b].label

\* C2: the result is sorted by score in descending order, records with equal
\* score appear in the relative order they had in the filtered candidate
\* sequence (stable tie-break), and no candidate left out has a strictly
\* higher score than a returned one.
C2_SortedStable ==
    Ran => (SortedDescending /\ TiesKeepInputOrder)

\* C3: when no catalog record passes the price and brand filters, recommend
\* completes and returns an empty ranking, and the button handler reaches its
\* "No phones found" branch (st.warning), not an exception.
C3_EmptyRanking ==
    Candidates = {} =>
        /\ recommend(WholeFrame(catalog), priority, price_range, brand_pref) = { <<>> }
        /\ Ran => (recommendations = <<>> /\ ui = "warning")

\* the button was pressed on a non-empty catalog none of whose records passes
\* the filters, and the warning branch was reached
C3_Witness ==
    /\ Ran
    /\ catalog # <<>>
    /\ Candidates = {}
    /\ recommendations = <<>>
    /\ ui = "warning"

\* C4: with an empty brand filter no record is excluded on account of its
\* brand (every record in the price range is scored); with a non-empty filter
\* every returned record has a brand that is a member of the filter, so a
\* record whose brand is missing or not in the filter is never returned.
C4_BrandFilter ==
    Ran =>
        /\ brand_pref = {} => Labels(trace) = {i \in DOMAIN catalog : PriceOk(i)}
        /\ brand_pref # {} =>
              \A a \in 1..Len(recommendations) :
                  /\ catalog[recommendations[a].label].brand \in brand_pref
                  /\ catalog[recommendations[a].label].brand # NoBrand

\* a non-empty filter kept out a record in the price range whose score would
\* have been strictly higher than every returned one
C4_Witness ==
    /\ Ran
    /\ brand_pref # {}
    /\ recommendations # <<>>
    /\ \E i \in DOMAIN catalog :
          /\ PriceOk(i)
          /\ catalog[i].brand \notin brand_pref
          /\ i \notin Labels(recommendations)
          /\ \A a \in 1..Len(recommendations) :
                Lt(recommendations[a].score,
                   score_phone(catalog[i], priority, price_range[1], price_range[2]).final)

\* C7: the RAM and battery terms of every candidate recommend scores are
\* normalised by the maxima of the entire loaded catalog, whatever the budget
\* range and brand filter of the query.
C7_CatalogWideMaxima ==
    Ran =>
        \A k \in 1..Len(trace) :
            /\ trace[k].stages.ram =
                  Add(trace[k].stages.budget, ExpectedRamTerm(catalog[trace[k].label]))
            /\ trace[k].stages.battery =
                  Add(trace[k].stages.ram, ExpectedBatteryTerm(catalog[trace[k].label]))

\* the loaded catalog never changes
C7_CatalogImmutable == [][catalog' = catalog]_vars

\* a candidate with a RAM value was scored in a query whose filtered frame
\* has a smaller RAM maximum than the whole catalog
C7_Witness ==
    /\ Ran
    /\ \E k \in 1..Len(trace) :
          /\ IsFinite(catalog[trace[k].label].ram)
          /\ IsFinite(trace[k].stages.ram)
          /\ ColumnMax([j \in 1..Len(trace) |-> catalog[trace[j].label]], "ram")
                # ColumnMax(catalog, "ram")

(***************************************************************************)
(* Properties of the chat (checked under ChatSpec)                         *)
(***************************************************************************)
\* C10: starting from an empty history, chat_history strictly alternates user
\* and assistant entries after any sequence of chat messages: its length is
\* even and every user entry is immediately followed by an assistant reply,
\* also when the ranking is empty or a recommended record has a missing ram
\* or battery value.
C10_HistoryAlternates ==
    /\ Len(chat_history) % 2 = 0
    /\ \A i \in 1..Len(chat_history) :
          chat_history[i].role = IF i % 2 = 1 THEN "user" ELSE "assistant"

\* existing entries of the history are never removed or changed
C10_AppendOnly ==
    [][/\ Len(chat_history') >= Len(chat_history)
       /\ SubSeq(chat_history', 1, Len(chat_history)) = chat_history]_vars

\* a message sent while no record passes the filters was answered
C10_WitnessEmptyRanking ==
    /\ Len(chat_history) = 2
    /\ Candidates = {}
    /\ chat_history[2] = AssistantEntry(SorryReply)

====
